---- MODULE Spec2Model ----
(***************************************************************************)
(* Model of the conversation session engine of legally-assist-ai:          *)
(*   - GeminiService (src/src/lib/gemini.ts): input validation, the         *)
(*     requestInProgress gate, the streaming call and error classification *)
(*   - useGemini (src/src/hooks/use-file-processor.ts): React state, the    *)
(*     sendMessage / retry / clearConversation / addMessage callbacks,     *)
(*     the auto-retry timer and history truncation.                        *)
(*                                                                         *)
(* Text is a sequence of one-character strings.  " " is whitespace, the    *)
(* capital letters S, J, O, D each stand for one occurrence of a substring *)
(* matched by the corresponding entry of DANGEROUS_PATTERNS, T stands for  *)
(* one HTML tag, L for a run of 100000 ordinary characters, and every      *)
(* other character is ordinary text.                                       *)
(*                                                                         *)
(* One action is one JavaScript task: the synchronous part of a callback   *)
(* together with the promise continuations (microtasks) it triggers.  A    *)
(* callback invoked by the caller closes over the state of the latest      *)
(* render; the auto-retry timer re-invokes the sendMessage closure that    *)
(* scheduled it.                                                           *)
(***************************************************************************)
EXTENDS Integers, Sequences, FiniteSets, TLC

VARIABLES
  opts,               \* hook options (fixed at construction)
  state,              \* the React state record of useGemini
  lastMessageRef,     \* lastMessageRef.current
  requestInProgress,  \* GeminiService.requestInProgress
  lastIndex,          \* lastIndex of each (global, /g) DANGEROUS_PATTERNS regex
  calls,              \* generation calls awaiting the provider
  timers,             \* pending auto-retry timers, in scheduling order
  lastOp,             \* history: the operation performed by the last step
  ops,                \* history: number of operations the caller has invoked
  probe               \* inputs/outputs of the pure-function specifications

vars == <<opts, state, lastMessageRef, requestInProgress, lastIndex, calls,
          timers, lastOp, ops, probe>>

sessionVars == <<opts, state, lastMessageRef, requestInProgress, lastIndex,
                 calls, timers, lastOp, ops>>

----------------------------------------------------------------------------
(* Bounds of the model *)

MaxOps == 3
MaxChunks == 2
MaxAttempt == 2
MaxDelayArg == 60
MaxTruncLen == 4
MaxValidateLen == 2

(* Program constants *)

MaxInputLength == 100000
BaseDelay == 1000
CapDelay == 30000

----------------------------------------------------------------------------
(* Strings *)

\* F applied to the value of e: e is evaluated once, like a const binding
With(e, F(_)) == CHOOSE y \in { F(x) : x \in {e} } : TRUE

Min(a, b) == IF a <= b THEN a ELSE b
Max(a, b) == IF a >= b THEN a ELSE b

RECURSIVE TrimStart(_)
TrimStart(s) ==
  IF s # <<>> /\ Head(s) = " " THEN TrimStart(Tail(s)) ELSE s

RECURSIVE TrimEnd(_)
TrimEnd(s) ==
  IF s # <<>> /\ s[Len(s)] = " " THEN TrimEnd(SubSeq(s, 1, Len(s) - 1)) ELSE s

Trim(s) == TrimEnd(TrimStart(s))

\* String.prototype.length
RECURSIVE TextLength(_)
TextLength(s) ==
  IF s = <<>> THEN 0
  ELSE (IF Head(s) = "L" THEN MaxInputLength ELSE 1) + TextLength(Tail(s))

----------------------------------------------------------------------------
(* Errors *)

NoError == [type |-> "none", msg |-> "none"]

GeminiError(type, msg) == [type |-> type, msg |-> msg]

----------------------------------------------------------------------------
(* GeminiService.validateInput and the stateful deny list *)

DANGEROUS_PATTERNS == <<"S", "J", "O", "D">>

ZeroIndex == [p \in 1..Len(DANGEROUS_PATTERNS) |-> 0]

\* RegExp.prototype.test on a /g regex: search from lastIndex; on a match
\* lastIndex becomes the end of the match, otherwise 0.  Result: the end of
\* the first match at or after li (0-based), or 0 when there is none.
RegexTest(p, s, li) ==
  LET hits == {i \in (li + 1)..Len(s) : s[i] = DANGEROUS_PATTERNS[p]}
  IN IF hits = {} THEN 0 ELSE CHOOSE i \in hits : \A j \in hits : i <= j

RECURSIVE CheckPatterns(_, _, _)
CheckPatterns(s, li, p) ==
  IF p > Len(DANGEROUS_PATTERNS) THEN [unsafe |-> FALSE, li |-> li]
  ELSE With(RegexTest(p, s, li[p]), LAMBDA m :
         IF m # 0 THEN [unsafe |-> TRUE, li |-> [li EXCEPT ![p] = m]]
         ELSE With([li EXCEPT ![p] = 0], LAMBDA li0 :
                CheckPatterns(s, li0, p + 1)))

validateInput(input, li) ==
  IF input = <<>> THEN
    [ok |-> FALSE, text |-> <<>>, li |-> li,
     error |-> GeminiError("INVALID_INPUT", "nonEmptyString")]
  ELSE With(Trim(input), LAMBDA trimmed :
    IF Len(trimmed) = 0 THEN
      [ok |-> FALSE, text |-> <<>>, li |-> li,
       error |-> GeminiError("INVALID_INPUT", "whitespace")]
    ELSE IF TextLength(trimmed) > MaxInputLength THEN
      [ok |-> FALSE, text |-> <<>>, li |-> li,
       error |-> GeminiError("INVALID_INPUT", "tooLong")]
    ELSE With(CheckPatterns(trimmed, li, 1), LAMBDA chk :
      IF chk.unsafe THEN
        [ok |-> FALSE, text |-> <<>>, li |-> chk.li,
         error |-> GeminiError("INVALID_INPUT", "unsafe")]
      ELSE [ok |-> TRUE, text |-> trimmed, li |-> chk.li, error |-> NoError]))

\* generateConversationResponse: "Validate all message content"
RECURSIVE ValidateContents(_, _)
ValidateContents(contents, li) ==
  IF contents = <<>> THEN [ok |-> TRUE, li |-> li, error |-> NoError]
  ELSE IF Head(contents).text = <<>> THEN ValidateContents(Tail(contents), li)
  ELSE With(validateInput(Head(contents).text, li), LAMBDA v :
         IF ~v.ok THEN [ok |-> FALSE, li |-> v.li, error |-> v.error]
         ELSE ValidateContents(Tail(contents), v.li))

----------------------------------------------------------------------------
(* Conversation helpers *)

Message(role, text) == [role |-> role, text |-> text]

IsSystem(m) == m.role = "system"
NotSystem(m) == m.role # "system"
IsContent(m) == m.role = "user" \/ m.role = "model"

DefaultSystemPrompt == <<"d">>

createLegalConversation(systemPrompt) ==
  << Message("system",
             IF systemPrompt # <<>> THEN systemPrompt ELSE DefaultSystemPrompt) >>

addModelResponse(conversation, response) ==
  Append(conversation, Message("model", response))

\* Array.prototype.slice(start)
Slice(s, start) ==
  LET k == IF start < 0 THEN Max(Len(s) + start, 0) ELSE Min(start, Len(s))
  IN SubSeq(s, k + 1, Len(s))

truncateConversation(conversation, maxLength) ==
  IF Len(conversation) <= maxLength THEN conversation
  ELSE LET systemMessages == SelectSeq(conversation, IsSystem)
           otherMessages == SelectSeq(conversation, NotSystem)
           messagesToKeep == maxLength - Len(systemMessages)
       IN systemMessages \o Slice(otherMessages, 0 - messagesToKeep)

\* Math.pow(2, n) in double arithmetic; values beyond 2^20 are represented
\* by 2^20 (they only ever feed a Math.min with a much smaller cap).
Pow2(n) == IF n >= 20 THEN 1048576 ELSE 2^n

\* variant: linear instead of exponential backoff
getRetryDelay_Linear(retryCount) == Min(BaseDelay * (retryCount + 1), CapDelay)

getRetryDelay(retryCount) == Min(BaseDelay * Pow2(retryCount), CapDelay)

\* the seed computed by the useState initialiser and by clearConversation
InitialConversation ==
  IF opts.multiTurn
  THEN IF opts.systemPrompt # <<>> THEN createLegalConversation(opts.systemPrompt)
       ELSE IF opts.legalContext THEN createLegalConversation(<<>>)
       ELSE <<>>
  ELSE <<>>

canRetry ==
  /\ state.error # NoError
  /\ lastMessageRef # <<>>
  /\ state.retryCount < opts.maxRetries

----------------------------------------------------------------------------
(* GeminiService: error classification (catch block of                     *)
(* generateConversationResponse).  A provider failure is the set of the    *)
(* substrings its message contains.                                        *)

\* variant: the network rule is tried before the rate-limit rule
ClassifyError_NetworkFirst(mentions) ==
  IF "API_KEY" \in mentions THEN GeminiError("API_KEY_MISSING", "apiKey")
  ELSE IF "network" \in mentions \/ "fetch" \in mentions
    THEN GeminiError("NETWORK_ERROR", "network")
  ELSE IF "rate limit" \in mentions \/ "quota" \in mentions
    THEN GeminiError("RATE_LIMIT", "rateLimit")
  ELSE IF "safety" \in mentions \/ "blocked" \in mentions
    THEN GeminiError("CONTENT_FILTER", "blocked")
  ELSE GeminiError("UNKNOWN_ERROR", "unexpected")

ClassifyError(mentions) ==
  IF "API_KEY" \in mentions THEN GeminiError("API_KEY_MISSING", "apiKey")
  ELSE IF "rate limit" \in mentions \/ "quota" \in mentions
    THEN GeminiError("RATE_LIMIT", "rateLimit")
  ELSE IF "network" \in mentions \/ "fetch" \in mentions
    THEN GeminiError("NETWORK_ERROR", "network")
  ELSE IF "safety" \in mentions \/ "blocked" \in mentions
    THEN GeminiError("CONTENT_FILTER", "blocked")
  ELSE GeminiError("UNKNOWN_ERROR", "unexpected")

\* the whole catch block: a GeminiError is rethrown as it is, anything else
\* is classified by the substrings of its message
ClassifyCaught(failure) ==
  IF failure.isGeminiError THEN GeminiError(failure.type, "original")
  ELSE ClassifyError(failure.mentions)

BusyError == GeminiError("RATE_LIMIT", "busy")

----------------------------------------------------------------------------
(* GeminiService: the synchronous part of a generation attempt.  Each      *)
(* operator returns what the attempt throws (thrown), the gate and the     *)
(* regex state it leaves, and the contents handed to the provider.         *)

addUserMessage(conversation, message, li) ==
  With(validateInput(message, li), LAMBDA v :
    [ok |-> v.ok, li |-> v.li, error |-> v.error,
     conversation |-> IF v.ok THEN Append(conversation, Message("user", v.text))
                      ELSE conversation])

\* variant: the busy check is missing
generateConversationResponse_NoGate(messages, gate, li) ==
  With(SelectSeq(messages, IsContent), LAMBDA contents :
    With(ValidateContents(contents, li), LAMBDA hv :
      IF ~hv.ok THEN
        [thrown |-> TRUE, error |-> hv.error, gate |-> FALSE, li |-> hv.li,
         contents |-> <<>>]
      ELSE [thrown |-> FALSE, error |-> NoError, gate |-> TRUE,
            li |-> hv.li, contents |-> contents]))

generateConversationResponse(messages, gate, li) ==
  IF gate THEN
    [thrown |-> TRUE, error |-> BusyError, gate |-> gate, li |-> li,
     contents |-> <<>>]
  ELSE With(SelectSeq(messages, IsContent), LAMBDA contents :
         With(ValidateContents(contents, li), LAMBDA hv :
           IF ~hv.ok THEN
             [thrown |-> TRUE, error |-> hv.error, gate |-> FALSE,
              li |-> hv.li, contents |-> <<>>]
           ELSE [thrown |-> FALSE, error |-> NoError, gate |-> TRUE,
                 li |-> hv.li, contents |-> contents]))

generateResponse(message, gate, li) ==
  IF gate THEN
    [thrown |-> TRUE, error |-> BusyError, gate |-> gate, li |-> li,
     contents |-> <<>>]
  ELSE With(validateInput(message, li), LAMBDA v :
    IF ~v.ok THEN
      [thrown |-> TRUE, error |-> v.error, gate |-> FALSE, li |-> v.li,
       contents |-> <<>>]
    ELSE With(validateInput(v.text, v.li), LAMBDA c :      \* createContent
      IF ~c.ok THEN
        [thrown |-> TRUE, error |-> c.error, gate |-> FALSE, li |-> c.li,
         contents |-> <<>>]
      ELSE With(generateConversationResponse(<<Message("user", c.text)>>,
                                             TRUE, c.li), LAMBDA g :
        IF g.thrown THEN
          [thrown |-> TRUE, error |-> g.error, gate |-> FALSE, li |-> g.li,
           contents |-> <<>>]
        ELSE g)))

----------------------------------------------------------------------------
(* useGemini.sendMessage *)

Closure == [conversation |-> state.conversation, retryCount |-> state.retryCount]

\* the catch block of sendMessage: st is the React state it updates, cl the
\* closure of the failing sendMessage, attempt the number of automatic
\* resends that preceded the failing one
\* variant: the catch block does not record the error
Catch_NoError(st, err, message, cl, attempt) ==
  [state |-> [st EXCEPT !.isLoading = FALSE, !.streamingResponse = <<>>],
   timer |-> IF opts.autoRetry /\ cl.retryCount < opts.maxRetries
             THEN << [message |-> message, closure |-> cl,
                      delay |-> getRetryDelay(cl.retryCount),
                      attempt |-> attempt, cause |-> err,
                      superseded |-> FALSE] >>
             ELSE <<>>]

\* variant: the catch block keeps the failed user turn in the history
Catch_KeepsUserTurn(st, err, message, cl, attempt) ==
  [state |-> [st EXCEPT !.isLoading = FALSE, !.error = err,
                        !.streamingResponse = <<>>,
                        !.conversation = Append(@, Message("user", message))],
   timer |-> IF opts.autoRetry /\ cl.retryCount < opts.maxRetries
             THEN << [message |-> message, closure |-> cl,
                      delay |-> getRetryDelay(cl.retryCount),
                      attempt |-> attempt, cause |-> err,
                      superseded |-> FALSE] >>
             ELSE <<>>]

Catch(st, err, message, cl, attempt) ==
  [state |-> [st EXCEPT !.isLoading = FALSE, !.error = err,
                        !.streamingResponse = <<>>],
   timer |-> IF opts.autoRetry /\ cl.retryCount < opts.maxRetries
             THEN << [message |-> message, closure |-> cl,
                      delay |-> getRetryDelay(cl.retryCount),
                      attempt |-> attempt, cause |-> err,
                      superseded |-> FALSE] >>
             ELSE <<>>]

\* sendMessage up to its first suspension, run on React state st by the
\* closure cl
SendMessageSync(message, cl, st, attempt) ==
  IF Trim(message) = <<>> THEN
    [state |-> [st EXCEPT !.error = GeminiError("INVALID_INPUT", "messageEmpty")],
     ref |-> lastMessageRef, gate |-> requestInProgress, li |-> lastIndex,
     call |-> <<>>, timer |-> <<>>, outcome |-> "INVALID_INPUT"]
  ELSE
    With([st EXCEPT !.isLoading = TRUE, !.error = NoError,
                    !.streamingResponse = <<>>, !.retryCount = 0], LAMBDA st1 :
    With(opts.multiTurn /\ Len(cl.conversation) > 0, LAMBDA multi :
    With(IF multi THEN addUserMessage(cl.conversation, message, lastIndex)
         ELSE [ok |-> TRUE, li |-> lastIndex, error |-> NoError,
               conversation |-> <<>>], LAMBDA u :
    With(IF multi
         THEN IF u.ok
              THEN generateConversationResponse(u.conversation,
                                                requestInProgress, u.li)
              ELSE [thrown |-> TRUE, error |-> u.error,
                    gate |-> requestInProgress, li |-> u.li, contents |-> <<>>]
         ELSE generateResponse(message, requestInProgress, lastIndex), LAMBDA g :
      IF g.thrown THEN
        With(Catch(st1, g.error, message, cl, attempt), LAMBDA c :
          [state |-> c.state, ref |-> message, gate |-> g.gate, li |-> g.li,
           call |-> <<>>, timer |-> c.timer, outcome |-> g.error.type])
      ELSE
        [state |-> st1, ref |-> message, gate |-> g.gate, li |-> g.li,
         call |-> <<[message |-> message, closure |-> cl,
                    started |-> st.conversation,
                    kind |-> IF multi THEN "multi" ELSE "single",
                    updatedConversation |-> u.conversation,
                    contents |-> g.contents,
                    fullResponse |-> <<>>, chunks |-> 0,
                    streamed |-> <<>>, attempt |-> attempt]>>,
         timer |-> <<>>, outcome |-> "issued"]))))

\* history: the timers already pending when the caller's sendMessage or
\* retry() issued a provider call are marked superseded (nothing in the code
\* reads the mark)
Supersede(pending, outcome) ==
  IF outcome = "issued"
  THEN [i \in 1..Len(pending) |-> [pending[i] EXCEPT !.superseded = TRUE]]
  ELSE pending

ApplySend(r, op, text) ==
  /\ state' = r.state
  /\ lastMessageRef' = r.ref
  /\ requestInProgress' = r.gate
  /\ lastIndex' = r.li
  /\ calls' = calls \o r.call
  /\ timers' = Supersede(timers, r.outcome) \o r.timer
  /\ lastOp' = [op |-> op, text |-> text, outcome |-> r.outcome, chunks |-> 0]
  /\ ops' = ops + 1
  /\ UNCHANGED <<opts, probe>>

----------------------------------------------------------------------------
(* Inputs *)

UserTexts == { <<" ">>, <<"a", " ">>, <<"J">> }
ChunkTexts == { <<"r", " ">>, <<" ", "q">> }
ProviderErrors == { {"quota", "fetch"} }
AddableMessages == { Message("model", <<"m">>), Message("system", <<"s">>) }
AIContents == { <<"T", "m", " ">>, <<"S", "J", " ">>, <<"O", "T">> }

\* the configurations explored: every combination without auto-retry, and
\* auto-retry with the default seed
Options ==
  [multiTurn : BOOLEAN, legalContext : BOOLEAN, systemPrompt : {<<>>, <<"p">>},
   autoRetry : {FALSE}, maxRetries : {0, 1}, maxHistoryLength : {1, 3}]
  \cup
  [multiTurn : BOOLEAN, legalContext : {TRUE}, systemPrompt : {<<>>},
   autoRetry : {TRUE}, maxRetries : {1}, maxHistoryLength : {3}]

\* the number of operations the caller may invoke: one fewer with
\* auto-retry, where every operation can start an endless chain of timers
Budget == IF opts.autoRetry THEN MaxOps - 1 ELSE MaxOps

RemoveAt(s, i) == SubSeq(s, 1, i - 1) \o SubSeq(s, i + 1, Len(s))

----------------------------------------------------------------------------
(* The session *)

SessionInit ==
  /\ state = [conversation |-> InitialConversation, response |-> <<>>,
              streamingResponse |-> <<>>, isLoading |-> FALSE,
              error |-> NoError, retryCount |-> 0]
  /\ lastMessageRef = <<>>
  /\ requestInProgress = FALSE
  /\ lastIndex = ZeroIndex
  /\ calls = <<>>
  /\ timers = <<>>
  /\ lastOp = [op |-> "init", text |-> <<>>, outcome |-> "done", chunks |-> 0]
  /\ ops = 0

Init ==
  /\ opts \in Options
  /\ SessionInit
  /\ probe = [fn |-> "none"]

\* the caller invokes sendMessage(message) of the latest render
SendMessage(message) ==
  /\ ops < Budget
  /\ \E r \in {SendMessageSync(message, Closure, state, 0)} :
       ApplySend(r, "send", message)

\* the caller invokes retry() of the latest render
Retry ==
  /\ ops < Budget
  /\ IF lastMessageRef # <<>> /\ state.error # NoError
     THEN \E r \in {SendMessageSync(lastMessageRef, Closure, state, 0)} :
            ApplySend(r, "retry", lastMessageRef)
     ELSE /\ lastOp' = [op |-> "retry", text |-> lastMessageRef,
                        outcome |-> "noop", chunks |-> 0]
          /\ ops' = ops + 1
          /\ UNCHANGED <<opts, state, lastMessageRef, requestInProgress,
                         lastIndex, calls, timers, probe>>

\* an auto-retry timer fires: setState(retryCount + 1), then the sendMessage
\* that scheduled it is invoked again.  Timers of equal delay fire in the
\* order they were scheduled.
TimerFire(i) ==
  /\ i \in 1..Len(timers)
  /\ \A j \in 1..(i - 1) : timers[j].delay > timers[i].delay
  /\ \E r \in {SendMessageSync(timers[i].message, timers[i].closure,
                                [state EXCEPT !.retryCount = @ + 1],
                                Min(timers[i].attempt + 1, MaxAttempt))} :
        /\ state' = r.state
        /\ lastMessageRef' = r.ref
        /\ requestInProgress' = r.gate
        /\ lastIndex' = r.li
        /\ calls' = calls \o r.call
        /\ timers' = RemoveAt(timers, i) \o r.timer
        /\ lastOp' = [op |-> "timer", text |-> timers[i].message,
                      outcome |-> r.outcome,
                      chunks |-> 0, superseded |-> timers[i].superseded]
        /\ UNCHANGED <<opts, ops, probe>>

\* variant: the last attempted message survives a clear
clearConversation_KeepsLastMessage ==
  /\ ops < Budget
  /\ ops' = ops + 1
  /\ state' = [state EXCEPT !.conversation = InitialConversation,
                            !.response = <<>>, !.streamingResponse = <<>>,
                            !.error = NoError, !.retryCount = 0]
  /\ lastOp' = [op |-> "clear", text |-> <<>>, outcome |-> "done", chunks |-> 0]
  /\ UNCHANGED <<opts, lastMessageRef, requestInProgress, lastIndex, calls,
                 timers, probe>>

clearConversation ==
  /\ ops < Budget
  /\ ops' = ops + 1
  /\ state' = [state EXCEPT !.conversation = InitialConversation,
                            !.response = <<>>, !.streamingResponse = <<>>,
                            !.error = NoError, !.retryCount = 0]
  /\ lastMessageRef' = <<>>
  /\ lastOp' = [op |-> "clear", text |-> <<>>, outcome |-> "done", chunks |-> 0]
  /\ UNCHANGED <<opts, requestInProgress, lastIndex, calls, timers, probe>>

addMessage(message) ==
  /\ ops < Budget
  /\ ops' = ops + 1
  /\ IF ~opts.multiTurn
     THEN /\ lastOp' = [op |-> "add", text |-> message.text, outcome |-> "noop",
                        chunks |-> 0]
          /\ UNCHANGED state
     ELSE /\ state' = [state EXCEPT !.conversation =
                         truncateConversation(Append(@, message),
                                              opts.maxHistoryLength)]
          /\ lastOp' = [op |-> "add", text |-> message.text, outcome |-> "done",
                        chunks |-> 0]
  /\ UNCHANGED <<opts, lastMessageRef, requestInProgress, lastIndex, calls,
                 timers, probe>>

\* variant: a chunk is put in front of the text received so far
ProviderChunk_Prepends(i, chunk) ==
  /\ i \in 1..Len(calls)
  /\ calls[i].chunks < MaxChunks
  /\ calls' = [calls EXCEPT ![i].chunks = @ + 1,
                            ![i].streamed = Append(@, chunk),
                            ![i].fullResponse = IF chunk # <<>> THEN chunk \o @
                                                ELSE @]
  /\ state' = IF chunk # <<>>
              THEN [state EXCEPT !.streamingResponse = @ \o chunk]
              ELSE state
  /\ lastOp' = [op |-> "chunk", text |-> calls[i].message, outcome |-> "done",
                chunks |-> calls[i].chunks + 1]
  /\ UNCHANGED <<opts, lastMessageRef, requestInProgress, lastIndex, timers,
                 ops, probe>>

\* String.prototype.replace(pattern, '') for a pattern standing for token c
RemoveAll(s, c) == SelectSeq(s, LAMBDA x : x # c)

\* addAIMessage: script elements, then tags, then javascript: are removed,
\* then the text is trimmed
sanitizedContent(content) ==
  Trim(RemoveAll(RemoveAll(RemoveAll(content, "S"), "T"), "J"))

\* ChatConversation is the component that offers addAIMessage; its session
\* is useGemini({multiTurn: true, legalContext: true, autoRetry: false})
ChatConversation == opts.multiTurn /\ opts.legalContext /\ ~opts.autoRetry

\* variant: the message is added even when nothing is left of the content
addAIMessage_AddsEmpty(content) ==
  /\ ChatConversation
  /\ ops < Budget
  /\ ops' = ops + 1
  /\ state' = [state EXCEPT !.conversation =
                  truncateConversation(
                    Append(@, Message("model", sanitizedContent(content))),
                    opts.maxHistoryLength)]
  /\ lastOp' = [op |-> "addAI", text |-> content,
                outcome |-> IF sanitizedContent(content) = <<>> THEN "noop"
                            ELSE "done",
                chunks |-> 0]
  /\ UNCHANGED <<opts, lastMessageRef, requestInProgress, lastIndex, calls,
                 timers, probe>>

\* the parent component invokes addAIMessage(content) of a ready session:
\* the content is sanitized and handed to addMessage as a model message
addAIMessage(content) ==
  /\ ChatConversation
  /\ ops < Budget
  /\ ops' = ops + 1
  /\ IF sanitizedContent(content) = <<>> \/ ~opts.multiTurn
     THEN /\ lastOp' = [op |-> "addAI", text |-> content, outcome |-> "noop",
                        chunks |-> 0]
          /\ UNCHANGED state
     ELSE /\ state' = [state EXCEPT !.conversation =
                         truncateConversation(
                           Append(@, Message("model", sanitizedContent(content))),
                           opts.maxHistoryLength)]
          /\ lastOp' = [op |-> "addAI", text |-> content, outcome |-> "done",
                        chunks |-> 0]
  /\ UNCHANGED <<opts, lastMessageRef, requestInProgress, lastIndex, calls,
                 timers, probe>>

\* the provider delivers one chunk of call i: the stream loop of
\* generateConversationResponse and handleStreamingChunk(chunk, false);
\* streamed records the fragments as they arrived
ProviderChunk(i, chunk) ==
  /\ i \in 1..Len(calls)
  /\ calls[i].chunks < MaxChunks
  /\ calls' = [calls EXCEPT ![i].chunks = @ + 1,
                            ![i].streamed = Append(@, chunk),
                            ![i].fullResponse = IF chunk # <<>> THEN @ \o chunk
                                                ELSE @]
  /\ state' = IF chunk # <<>>
              THEN [state EXCEPT !.streamingResponse = @ \o chunk]
              ELSE state
  /\ lastOp' = [op |-> "chunk", text |-> calls[i].message, outcome |-> "done",
                chunks |-> calls[i].chunks + 1]
  /\ UNCHANGED <<opts, lastMessageRef, requestInProgress, lastIndex, timers,
                 ops, probe>>

\* the stream of call i ends: handleStreamingChunk('', true), the empty
\* response check, the finally block(s), then the rest of sendMessage
ProviderEnd(i) ==
  /\ i \in 1..Len(calls)
  /\ \E c \in {calls[i]},
        st \in {[state EXCEPT !.response = state.streamingResponse,
                              !.streamingResponse = <<>>, !.isLoading = FALSE]} :
     \E response \in {Trim(c.fullResponse)},
        k \in {Catch(st, GeminiError("CONTENT_FILTER", "noResponse"),
                     c.message, c.closure, c.attempt)} :
        /\ calls' = RemoveAt(calls, i)
        /\ requestInProgress' = FALSE
        /\ IF response = <<>>
           THEN /\ state' = k.state
                /\ timers' = timers \o k.timer
                /\ lastOp' = [op |-> "end", text |-> c.message,
                              outcome |-> "CONTENT_FILTER", chunks |-> c.chunks]
           ELSE /\ state' =
                     IF c.kind = "multi"
                     THEN [st EXCEPT !.conversation =
                             truncateConversation(
                               addModelResponse(c.updatedConversation, response),
                               opts.maxHistoryLength),
                             !.response = response, !.isLoading = FALSE]
                     ELSE [st EXCEPT !.response = response, !.isLoading = FALSE]
                /\ timers' = timers
                /\ lastOp' = [op |-> "end", text |-> c.message,
                              outcome |-> "success", chunks |-> c.chunks]
        /\ UNCHANGED <<opts, lastMessageRef, lastIndex, ops, probe>>

\* variant: the finally block that releases the gate is missing
ProviderFail_KeepsGate(i, mentions) ==
  /\ i \in 1..Len(calls)
  /\ \E c \in {calls[i]}, err \in {ClassifyError(mentions)} :
     \E k \in {Catch(state, err, c.message, c.closure, c.attempt)} :
        /\ calls' = RemoveAt(calls, i)
        /\ state' = k.state
        /\ timers' = timers \o k.timer
        /\ lastOp' = [op |-> "fail", text |-> c.message, outcome |-> err.type,
                      chunks |-> c.chunks]
        /\ UNCHANGED <<opts, lastMessageRef, requestInProgress, lastIndex, ops,
                       probe>>

\* the provider call of call i fails (before or while streaming)
ProviderFail(i, mentions) ==
  /\ i \in 1..Len(calls)
  /\ \E c \in {calls[i]}, err \in {ClassifyError(mentions)} :
     \E k \in {Catch(state, err, c.message, c.closure, c.attempt)} :
        /\ calls' = RemoveAt(calls, i)
        /\ requestInProgress' = FALSE
        /\ state' = k.state
        /\ timers' = timers \o k.timer
        /\ lastOp' = [op |-> "fail", text |-> c.message, outcome |-> err.type,
                      chunks |-> c.chunks]
        /\ UNCHANGED <<opts, lastMessageRef, lastIndex, ops, probe>>

Next ==
  \/ \E message \in UserTexts : SendMessage(message)
  \/ Retry
  \/ \E i \in 1..Len(timers) : TimerFire(i)
  \/ clearConversation
  \/ \E message \in AddableMessages : addMessage(message)
  \/ \E content \in AIContents : addAIMessage(content)
  \/ \E i \in 1..Len(calls), chunk \in ChunkTexts : ProviderChunk(i, chunk)
  \/ \E i \in 1..Len(calls) : ProviderEnd(i)
  \/ \E i \in 1..Len(calls), mentions \in ProviderErrors : ProviderFail(i, mentions)

Spec == Init /\ [][Next]_vars

\* the provider call of a generation attempt terminates: its stream ends or
\* it fails
ProviderSettles ==
  \E i \in 1..Len(calls) :
    \/ ProviderEnd(i)
    \/ \E mentions \in ProviderErrors : ProviderFail(i, mentions)

SpecLive == Init /\ [][Next]_vars /\ WF_vars(ProviderSettles)

----------------------------------------------------------------------------
(* Two sessions.  Every useGemini instance obtains its service from          *)
(* getGeminiService(), which returns the one GeminiService of the module:   *)
(* session A (the variables of the session above) and session B (its React  *)
(* state, lastMessageRef and calls are fields of probe) use the same        *)
(* requestInProgress and the same DANGEROUS_PATTERNS.                       *)

InitSessions ==
  /\ opts \in {o \in Options : o.multiTurn /\ o.legalContext /\ ~o.autoRetry}
  /\ SessionInit
  /\ probe = [fn |-> "sessionB", state |-> state, lastMessageRef |-> <<>>,
              calls |-> <<>>]

\* the caller of session B invokes its sendMessage(message)
SendMessageB(message) ==
  /\ probe.fn = "sessionB"
  /\ ops < Budget
  /\ \E r \in {SendMessageSync(message,
                                [conversation |-> probe.state.conversation,
                                 retryCount |-> probe.state.retryCount],
                                probe.state, 0)} :
       /\ probe' = [probe EXCEPT
                      !.state = r.state,
                      !.lastMessageRef = IF Trim(message) = <<>> THEN @
                                         ELSE r.ref,
                      !.calls = @ \o r.call]
       /\ requestInProgress' = r.gate
       /\ lastIndex' = r.li
       /\ lastOp' = [op |-> "sendB", text |-> message, outcome |-> r.outcome,
                     chunks |-> 0]
  /\ ops' = ops + 1
  /\ UNCHANGED <<opts, state, lastMessageRef, calls, timers>>

\* the provider delivers one chunk of call i of session B
ProviderChunkB(i, chunk) ==
  /\ probe.fn = "sessionB"
  /\ i \in 1..Len(probe.calls)
  /\ probe.calls[i].chunks < MaxChunks
  /\ probe' = [probe EXCEPT
                 !.calls[i].chunks = @ + 1,
                 !.calls[i].streamed = Append(@, chunk),
                 !.calls[i].fullResponse = IF chunk # <<>> THEN @ \o chunk
                                           ELSE @,
                 !.state.streamingResponse = IF chunk # <<>> THEN @ \o chunk
                                             ELSE @]
  /\ lastOp' = [op |-> "chunkB", text |-> probe.calls[i].message,
                outcome |-> "done", chunks |-> probe.calls[i].chunks + 1]
  /\ UNCHANGED <<opts, state, lastMessageRef, requestInProgress, lastIndex,
                 calls, timers, ops>>

\* the stream of call i of session B ends
ProviderEndB(i) ==
  /\ probe.fn = "sessionB"
  /\ i \in 1..Len(probe.calls)
  /\ \E c \in {probe.calls[i]},
        st \in {[probe.state EXCEPT
                   !.response = probe.state.streamingResponse,
                   !.streamingResponse = <<>>, !.isLoading = FALSE]} :
     \E response \in {Trim(c.fullResponse)},
        k \in {Catch(st, GeminiError("CONTENT_FILTER", "noResponse"),
                     c.message, c.closure, c.attempt)} :
        /\ requestInProgress' = FALSE
        /\ IF response = <<>>
           THEN /\ probe' = [probe EXCEPT !.calls = RemoveAt(@, i),
                                          !.state = k.state]
                /\ lastOp' = [op |-> "endB", text |-> c.message,
                              outcome |-> "CONTENT_FILTER", chunks |-> c.chunks]
           ELSE /\ probe' =
                     [probe EXCEPT
                        !.calls = RemoveAt(@, i),
                        !.state =
                          [st EXCEPT !.conversation =
                             truncateConversation(
                               addModelResponse(c.updatedConversation, response),
                               opts.maxHistoryLength),
                             !.response = response, !.isLoading = FALSE]]
                /\ lastOp' = [op |-> "endB", text |-> c.message,
                              outcome |-> "success", chunks |-> c.chunks]
        /\ UNCHANGED <<opts, state, lastMessageRef, lastIndex, calls, timers,
                       ops>>

NextSessions ==
  \/ \E message \in UserTexts : SendMessage(message)
  \/ \E i \in 1..Len(calls), chunk \in ChunkTexts : ProviderChunk(i, chunk)
  \/ \E i \in 1..Len(calls) : ProviderEnd(i)
  \/ \E message \in UserTexts : SendMessageB(message)
  \/ \E i \in 1..Len(probe.calls), chunk \in ChunkTexts : ProviderChunkB(i, chunk)
  \/ \E i \in 1..Len(probe.calls) : ProviderEndB(i)

SpecSessions == InitSessions /\ [][NextSessions]_vars

----------------------------------------------------------------------------
(* Properties of the session (specification Spec) *)

\* the step is an invocation of sendMessage by the caller
SendStep == lastOp'.op = "send"

\* the step is a sendMessage (from the caller, retry() or a timer) that
\* failed before it reached the provider
SyncFailStep ==
  /\ lastOp'.op \in {"send", "retry", "timer"}
  /\ lastOp'.outcome \notin {"issued", "noop"}

\* the step is the failure of a generation call that was in flight
AsyncFailStep ==
  \/ lastOp'.op = "fail"
  \/ lastOp'.op = "end" /\ lastOp'.outcome # "success"

\* the step is the successful completion of a generation call
SuccessStep == lastOp'.op = "end" /\ lastOp'.outcome = "success"

\* C1: in every reachable state at most one provider call is in flight, and
\* while a call is in flight the requestInProgress gate is held.
C1_OneCallInFlight ==
  /\ Len(calls) <= 1
  /\ calls # <<>> => requestInProgress

\* C1 witness: a send was rejected as busy while a call is in flight
C1_Witness ==
  /\ Len(calls) = 1
  /\ lastOp.op \in {"send", "retry", "timer"}
  /\ lastOp.outcome = "RATE_LIMIT"
  /\ state.error = BusyError

\* C2 as stated: a sendMessage issued while a generation call is outstanding
\* always ends with error kind RATE_LIMIT, issues no provider call and
\* leaves the Conversation as it was.
C2_Original ==
  [][ (SendStep /\ calls # <<>>) =>
        /\ state'.error.type = "RATE_LIMIT"
        /\ calls' = calls
        /\ state'.conversation = state.conversation ]_vars

\* the text is rejected by the validation that sendMessage performs before
\* the gate is consulted: the blank check, and in the multi-turn branch the
\* validateInput of addUserMessage
RejectedBeforeGate(message) ==
  \/ Trim(message) = <<>>
  \/ /\ opts.multiTurn
     /\ Len(state.conversation) > 0
     /\ ~validateInput(message, lastIndex).ok

\* C2 amended: a sendMessage issued while a generation call is outstanding
\* issues no provider call and leaves the Conversation as it was; it ends
\* with error kind INVALID_INPUT when its text is rejected by the validation
\* that precedes the gate check, and with RATE_LIMIT otherwise.
C2_Amended ==
  [][ (SendStep /\ calls # <<>>) =>
        /\ calls' = calls
        /\ state'.conversation = state.conversation
        /\ requestInProgress'
        /\ state'.error.type =
             IF RejectedBeforeGate(lastOp'.text) THEN "INVALID_INPUT"
             ELSE "RATE_LIMIT" ]_vars

\* C2 witness: a caller's send of valid text was rejected as busy
C2_Witness ==
  /\ lastOp.op = "send"
  /\ lastOp.text = <<"a", " ">>
  /\ lastOp.outcome = "RATE_LIMIT"
  /\ calls # <<>>
  /\ state.error = BusyError

\* C3: a successful multi-turn send leaves the Conversation equal to the
\* truncation of: the Conversation as it was when that send started, then
\* one user message with the validated text, then one model message with
\* the response.
C3_AppendsTurnToStartConversation ==
  [][ \A i \in 1..Len(calls) :
        (SuccessStep /\ calls' = RemoveAt(calls, i) /\ calls[i].kind = "multi") =>
          state'.conversation =
            truncateConversation(
              calls[i].started
                \o << Message("user", Trim(calls[i].message)),
                      Message("model", Trim(calls[i].fullResponse)) >>,
              opts.maxHistoryLength) ]_vars

\* C4 as stated: a sendMessage that fails appends nothing to the
\* Conversation, and afterwards the last attempted message is the failed
\* text.
C4_Original ==
  [][ (SyncFailStep \/ AsyncFailStep) =>
        /\ state'.conversation = state.conversation
        /\ lastMessageRef' = lastOp'.text ]_vars

\* C4 amended: a sendMessage that fails appends nothing to the
\* Conversation.  A blank text is rejected without being recorded; any other
\* text that fails before reaching the provider is the last attempted
\* message afterwards; the failure of a call in flight leaves the last
\* attempted message as it was.
C4_Amended ==
  [][ /\ SyncFailStep =>
           /\ state'.conversation = state.conversation
           /\ state'.error # NoError
           /\ lastMessageRef' = IF Trim(lastOp'.text) = <<>> THEN lastMessageRef
                                ELSE lastOp'.text
      /\ AsyncFailStep =>
           /\ state'.conversation = state.conversation
           /\ state'.error # NoError
           /\ lastMessageRef' = lastMessageRef ]_vars

\* C4 witness: a call failed after a chunk was streamed and its text is the
\* last attempted message
C4_Witness ==
  /\ lastOp.op = "fail"
  /\ lastOp.chunks > 0
  /\ lastMessageRef = lastOp.text
  /\ state.error.type = "RATE_LIMIT"

\* C5: after a sendMessage completes successfully the last attempted
\* message is empty.
C5_ClearedOnSuccess ==
  (lastOp.op = "end" /\ lastOp.outcome = "success") => lastMessageRef = <<>>

\* C6: retry() resends only when an error is set, the last attempted message
\* is non-empty and the attempt count is below maxRetries; in every other
\* state it issues no provider call and changes no session state.
C6_RetryGuard ==
  [][ (lastOp'.op = "retry" /\ ~canRetry) =>
        UNCHANGED <<state, lastMessageRef, requestInProgress, calls, timers>>
    ]_vars

\* C7: with autoRetry, the k-th automatic resend of a message whose provider
\* call keeps failing is scheduled after getRetryDelay(k-1), and no resend is
\* scheduled once maxRetries resends have been made.
C7_BoundedBackoff ==
  \A i \in 1..Len(timers) :
    timers[i].cause.msg \in {"rateLimit", "noResponse"} =>
      /\ timers[i].attempt < opts.maxRetries
      /\ timers[i].delay = getRetryDelay(timers[i].attempt)

\* the seed of the configuration, as the options describe it
ConfiguredSeed ==
  IF opts.multiTurn /\ (opts.systemPrompt # <<>> \/ opts.legalContext)
  THEN << [role |-> "system",
           text |-> IF opts.systemPrompt # <<>> THEN opts.systemPrompt
                    ELSE DefaultSystemPrompt] >>
  ELSE <<>>

\* C9: right after clearConversation() the Conversation is the configured
\* seed, the error is cleared, the attempt count is 0 and the last attempted
\* message is empty.
C9_ClearYieldsSeed ==
  lastOp.op = "clear" =>
    /\ state.conversation = ConfiguredSeed
    /\ state.error = NoError
    /\ state.retryCount = 0
    /\ lastMessageRef = <<>>

\* C9 witness: a clear while a call that started from a grown Conversation
\* is still in flight
C9_Witness ==
  /\ lastOp.op = "clear"
  /\ calls # <<>>
  /\ ConfiguredSeed # <<>>
  /\ Len(calls[1].started) > Len(ConfiguredSeed)

RECURSIVE Concat(_)
Concat(texts) ==
  IF texts = <<>> THEN <<>> ELSE Head(texts) \o Concat(Tail(texts))

\* the Conversation a successful call i leaves when the text of the model
\* message it appends is text
AppendedModelMessage(i, text) ==
  state'.conversation =
    truncateConversation(
      Append(calls[i].updatedConversation, Message("model", text)),
      opts.maxHistoryLength)

\* C16 as stated: on a successful send the text of the model message
\* appended to the Conversation is the concatenation, in arrival order and
\* with nothing inserted or removed, of the fragments streamed for the call.
C16_Original ==
  [][ \A i \in 1..Len(calls) :
        (SuccessStep /\ calls' = RemoveAt(calls, i) /\ calls[i].kind = "multi") =>
          AppendedModelMessage(i, Concat(calls[i].streamed)) ]_vars

\* C16 amended: on a successful send the text of the model message appended
\* to the Conversation, and the response, is the concatenation in arrival
\* order of the fragments streamed for the call with leading and trailing
\* whitespace removed, and that text is not empty.
C16_Amended ==
  [][ \A i \in 1..Len(calls) :
        (SuccessStep /\ calls' = RemoveAt(calls, i) /\ calls[i].kind = "multi") =>
          /\ AppendedModelMessage(i, Trim(Concat(calls[i].streamed)))
          /\ state'.response = Trim(Concat(calls[i].streamed))
          /\ state'.response # <<>> ]_vars

\* C16 witness: a send succeeded after two different fragments, and the
\* model message holds them in arrival order without the outer whitespace
C16_Witness ==
  /\ lastOp.op = "end"
  /\ lastOp.outcome = "success"
  /\ lastOp.chunks = 2
  /\ state.response = <<"q", "r">>
  /\ state.conversation # <<>>
  /\ state.conversation[Len(state.conversation)] = Message("model", <<"q", "r">>)

\* C17: addAIMessage(content) appends exactly one model message holding the
\* sanitized text (the content without script elements, tags and
\* javascript:, trimmed) and re-applies truncation with maxHistoryLength;
\* when the sanitized text is empty the Conversation is unchanged.  Nothing
\* else of the session changes.
C17_AddAIMessage ==
  [][ lastOp'.op = "addAI" =>
        LET text == sanitizedContent(lastOp'.text)
        IN /\ \A i \in 1..Len(text) : text[i] \notin {"S", "T", "J"}
           /\ text # <<>> => text[1] # " " /\ text[Len(text)] # " "
           /\ state'.conversation =
                IF text = <<>> THEN state.conversation
                ELSE truncateConversation(
                       state.conversation \o << Message("model", text) >>,
                       opts.maxHistoryLength)
           /\ text = <<>> => Len(state'.conversation) = Len(state.conversation)
           /\ (text # <<>>
                 /\ Len(state.conversation) < opts.maxHistoryLength) =>
                state'.conversation =
                  state.conversation \o << Message("model", text) >>
           /\ [state' EXCEPT !.conversation = <<>>]
                = [state EXCEPT !.conversation = <<>>]
           /\ UNCHANGED <<lastMessageRef, requestInProgress, calls, timers>>
    ]_vars

\* C17 witness: content that is empty after sanitization was dropped, in a
\* Conversation that already holds a sanitized AI message
C17_Witness ==
  /\ lastOp.op = "addAI"
  /\ lastOp.text = <<"S", "J", " ">>
  /\ lastOp.outcome = "noop"
  /\ \E i \in 1..Len(state.conversation) :
       state.conversation[i] = Message("model", <<"m">>)

\* the text passes every validation: it is not blank, not oversized and
\* holds nothing the deny list matches
ValidText(message) ==
  /\ Trim(message) # <<>>
  /\ TextLength(Trim(message)) <= 100000
  /\ \A i \in 1..Len(message), p \in 1..Len(DANGEROUS_PATTERNS) :
       message[i] # DANGEROUS_PATTERNS[p]

\* C19: in single-turn mode (multiTurn false, or an empty Conversation) a
\* sendMessage of valid text on a session with no call in flight issues
\* exactly one provider call, and when that call returns non-empty text the
\* send resolves with that text as the response and no error.
C19_SingleTurnSend ==
  [][ /\ (/\ SendStep
          /\ ~opts.multiTurn \/ state.conversation = <<>>
          /\ ValidText(lastOp'.text)
          /\ calls = <<>> /\ ~requestInProgress) =>
           /\ Len(calls') = 1
           /\ state'.error = NoError
           /\ state'.isLoading
      /\ \A i \in 1..Len(calls) :
           (SuccessStep /\ calls' = RemoveAt(calls, i)
              /\ calls[i].kind = "single") =>
             /\ state'.response = Trim(calls[i].fullResponse)
             /\ state'.error = NoError ]_vars

\* the step is a sendMessage invoked by the caller, by retry() or by a timer
AttemptStep == lastOp'.op \in {"send", "retry", "timer"}

\* C20: the gate is held only while a generation call is in flight, so it
\* is free once an attempt has ended, whatever its exit path; the end of a
\* call (success, empty response, provider failure) frees the gate; a send
\* rejected as busy leaves the gate held by the call in flight; and, the
\* provider call terminating, every accepted send is followed by a state
\* with the gate free and isLoading false.
C20_GateReleased ==
  /\ [](requestInProgress => calls # <<>>)
  /\ [][ /\ (AttemptStep /\ lastOp'.outcome # "issued") =>
              requestInProgress' = requestInProgress
         /\ (AttemptStep /\ calls # <<>> /\ state'.error = BusyError) =>
              requestInProgress' /\ calls' = calls
         /\ lastOp'.op \in {"end", "fail"} => ~requestInProgress' ]_vars
  /\ (calls # <<>>) ~> (~requestInProgress /\ ~state.isLoading)

\* C20 witness: a call that streamed a fragment failed and the gate is free
C20_Witness ==
  /\ lastOp.op = "fail"
  /\ lastOp.chunks > 0
  /\ calls = <<>>
  /\ ~requestInProgress
  /\ ~state.isLoading

\* the step schedules no automatic resend (a timer step consumes its timer)
NoResendScheduled ==
  Len(timers') = Len(timers) - (IF lastOp'.op = "timer" THEN 1 ELSE 0)

\* C13: a sendMessage whose text fails input validation ends in error
\* INVALID_INPUT, schedules no automatic resend, leaves the gate and the
\* calls in flight as they were and does not increase the attempt count.
C13_ValidationFailureIsTerminal ==
  [][ (AttemptStep /\ lastOp'.outcome = "INVALID_INPUT") =>
        /\ state'.error.type = "INVALID_INPUT"
        /\ NoResendScheduled
        /\ requestInProgress' = requestInProgress
        /\ calls' = calls
        /\ state'.retryCount <= state.retryCount ]_vars

\* C14: a sendMessage rejected because the gate is held by a call in flight
\* schedules no automatic resend.
C14_BusyIsDropped ==
  [][ (AttemptStep /\ calls # <<>> /\ state'.error = BusyError
         /\ lastOp'.outcome = "RATE_LIMIT") =>
        NoResendScheduled ]_vars

\* C23: in every reachable state the system messages of the Conversation
\* form a single leading run: no system message follows a user or model
\* message.
C23_SystemRunLeads ==
  \A i, j \in 1..Len(state.conversation) :
    (i < j /\ IsSystem(state.conversation[j])) =>
      IsSystem(state.conversation[i])

\* C24: while a generation call is streaming, streamingResponse is the
\* concatenation, in arrival order, of the chunks received so far from that
\* call, whatever other operations of the session are interleaved.
C24_StreamingIsChunksSoFar ==
  \A i \in 1..Len(calls) :
    state.streamingResponse = Concat(calls[i].streamed)

\* C25: with autoRetry disabled and a provider that keeps failing, canRetry
\* is true after a failed send while fewer than maxRetries resends have been
\* made through retry(), and false once maxRetries resends have been made:
\* with maxRetries at most 1, after the failure of a resend made by retry().
C25_ManualRetriesBounded ==
  [][ (~opts.autoRetry /\ lastOp.outcome = "issued" /\ lastOp'.op = "fail") =>
        /\ (lastOp.op = "send" /\ opts.maxRetries > 0) => canRetry'
        /\ (lastOp.op = "retry" /\ opts.maxRetries <= 1) => ~canRetry'
    ]_vars

\* C26: when the caller's retry() or sendMessage has issued a provider call
\* while an auto-retry timer was pending, that timer does not later cause
\* another provider call.
C26_SupersededTimerIsInert ==
  [][ (lastOp'.op = "timer" /\ lastOp'.superseded) =>
        /\ lastOp'.outcome # "issued"
        /\ calls' = calls ]_vars

\* C27: no conversation update is lost: a send that completes successfully
\* appends its user/model turn to the Conversation as it is at completion
\* time, so what addMessage appended while the send was in flight is still
\* there (up to truncation).
C27_TurnAppendedToCurrent ==
  [][ \A i \in 1..Len(calls) :
        (/\ SuccessStep
         /\ calls' = RemoveAt(calls, i)
         /\ calls[i].kind = "multi"
         /\ calls[i].attempt = 0) =>
          state'.conversation =
            truncateConversation(
              state.conversation
                \o << Message("user", Trim(calls[i].message)),
                      Message("model", Trim(calls[i].fullResponse)) >>,
              opts.maxHistoryLength) ]_vars

\* the step is none of the caller's operations: a chunk, the end or the
\* failure of a call, or an auto-retry timer
BackgroundStep == lastOp'.op \in {"chunk", "end", "fail", "timer"}

\* C28: after clearConversation() the Conversation stays the configured seed
\* while the caller invokes nothing: the step that follows a clear, when it
\* is not an operation of the caller, leaves the Conversation the seed.
C28_ClearedStaysSeed ==
  [][ (lastOp.op = "clear" /\ BackgroundStep) =>
        state'.conversation = ConfiguredSeed ]_vars

\* C29: after clearConversation() no provider call is issued while the
\* caller invokes nothing: the step that follows a clear, when it is not an
\* operation of the caller, issues no provider call.
C29_NoCallAfterClear ==
  [][ (lastOp.op = "clear" /\ BackgroundStep) =>
        /\ lastOp'.outcome # "issued"
        /\ \A i \in 1..Len(calls') : \E j \in 1..Len(calls) :
             calls'[i].message = calls[j].message
               /\ calls'[i].attempt = calls[j].attempt ]_vars

\* C30: in multi-turn mode a sendMessage of valid user text on a session
\* with no call in flight, whose Conversation holds only valid user text, is
\* never rejected with INVALID_INPUT: the model messages committed by
\* successful sends or inserted through addAIMessage pass the validation of
\* the history.
C30_HistoryNeverRejected ==
  [][ (/\ SendStep
       /\ opts.multiTurn
       /\ calls = <<>>
       /\ ValidText(lastOp'.text)
       /\ \A i \in 1..Len(state.conversation) :
            state.conversation[i].role = "user" =>
              ValidText(state.conversation[i].text)) =>
        lastOp'.outcome # "INVALID_INPUT" ]_vars

----------------------------------------------------------------------------
(* The pure functions of the hook, applied to bounded inputs *)

DEFAULT_OPTIONS ==
  [multiTurn |-> FALSE, legalContext |-> TRUE, systemPrompt |-> <<>>,
   autoRetry |-> TRUE, maxRetries |-> 3, maxHistoryLength |-> 50]

BoundedSeq(S, n) == UNION { [1..k -> S] : k \in 0..n }

TruncMessages ==
  { Message("system", <<"s">>), Message("user", <<"a">>),
    Message("user", <<"b">>), Message("model", <<"r">>) }

\* getRetryDelay(n) for n = 0, 1, 2, ...
InitDelay ==
  /\ opts = DEFAULT_OPTIONS
  /\ SessionInit
  /\ probe \in [fn : {"getRetryDelay"}, n : 0..MaxDelayArg, result : {-1},
                prev : {-1}]

ApplyGetRetryDelay ==
  /\ probe.fn = "getRetryDelay"
  /\ probe.result = -1
  /\ probe' = [probe EXCEPT !.result = getRetryDelay(probe.n)]
  /\ UNCHANGED sessionVars

NextAttempt ==
  /\ probe.fn = "getRetryDelay"
  /\ probe.result # -1
  /\ probe.n < MaxDelayArg
  /\ probe' = [probe EXCEPT !.n = @ + 1, !.result = -1, !.prev = probe.result]
  /\ UNCHANGED sessionVars

NextDelay == ApplyGetRetryDelay \/ NextAttempt

SpecDelay == InitDelay /\ [][NextDelay]_vars

\* truncateConversation(c, n) for every conversation c over TruncMessages
\* and every history length n > 0
InitTruncate ==
  /\ opts = DEFAULT_OPTIONS
  /\ SessionInit
  /\ probe \in [fn : {"truncateConversation"},
                c : BoundedSeq(TruncMessages, MaxTruncLen),
                n : 1..(MaxTruncLen + 1), result : {<<>>}, again : {<<>>},
                applied : {0}]

ApplyTruncate ==
  /\ probe.fn = "truncateConversation"
  /\ probe.applied = 0
  /\ probe' = [probe EXCEPT !.result = truncateConversation(probe.c, probe.n),
                            !.applied = 1]
  /\ UNCHANGED sessionVars

\* truncateConversation applied to its own result, with the same bound
ApplyTruncateAgain ==
  /\ probe.fn = "truncateConversation"
  /\ probe.applied = 1
  /\ probe' = [probe EXCEPT !.again = truncateConversation(probe.result, probe.n),
                            !.applied = 2]
  /\ UNCHANGED sessionVars

NextTruncate == ApplyTruncate \/ ApplyTruncateAgain

SpecTruncate == InitTruncate /\ [][NextTruncate]_vars

\* validateInput applied to one text after another by one GeminiService
ValidateTexts == BoundedSeq({" ", "a", "J", "O", "L"}, MaxValidateLen)

InitValidate ==
  /\ opts = DEFAULT_OPTIONS
  /\ SessionInit
  /\ probe = [fn |-> "validateInput", input |-> <<>>, ok |-> FALSE,
              text |-> <<>>, error |-> NoError, applied |-> 0]

ApplyValidateInput(input) ==
  /\ probe.fn = "validateInput"
  /\ \E v \in {validateInput(input, lastIndex)} :
       /\ lastIndex' = v.li
       /\ probe' = [fn |-> "validateInput", input |-> input, ok |-> v.ok,
                    text |-> v.text, error |-> v.error, applied |-> 1]
  /\ UNCHANGED <<opts, state, lastMessageRef, requestInProgress, calls,
                 timers, lastOp, ops>>

NextValidate == \E input \in ValidateTexts : ApplyValidateInput(input)

SpecValidate == InitValidate /\ [][NextValidate]_vars

\* the catch block of generateConversationResponse applied to every failure:
\* a GeminiError of some kind, or another error whose message contains any
\* set of the substrings the catch block looks for
Keywords ==
  {"API_KEY", "rate limit", "quota", "network", "fetch", "safety", "blocked"}

InitClassify ==
  /\ opts = DEFAULT_OPTIONS
  /\ SessionInit
  /\ probe \in
       [fn : {"classify"}, isGeminiError : {TRUE},
        type : {"INVALID_INPUT", "CONTENT_FILTER", "RATE_LIMIT"},
        mentions : SUBSET Keywords, result : {NoError}, applied : {0}]
       \cup
       [fn : {"classify"}, isGeminiError : {FALSE}, type : {"none"},
        mentions : SUBSET Keywords, result : {NoError}, applied : {0}]

ApplyClassify ==
  /\ probe.fn = "classify"
  /\ probe.applied = 0
  /\ probe' = [probe EXCEPT !.result = ClassifyCaught(probe), !.applied = 1]
  /\ UNCHANGED sessionVars

NextClassify == ApplyClassify

SpecClassify == InitClassify /\ [][NextClassify]_vars

\* C8: getRetryDelay(n) is 1000 * 2^n while that is below the cap and 30000
\* from n = 5 on; it never exceeds 30000 and never decreases from one
\* attempt to the next.
C8_RetryDelay ==
  (probe.fn = "getRetryDelay" /\ probe.result # -1) =>
    /\ probe.result = IF probe.n < 5 THEN 1000 * 2^(probe.n) ELSE 30000
    /\ probe.result <= 30000
    /\ probe.prev # -1 => probe.prev <= probe.result

\* C8 witness: the delay was computed for an attempt beyond the cap, after
\* the delay of the attempt before it
C8_Witness ==
  /\ probe.fn = "getRetryDelay"
  /\ probe.n = 5
  /\ probe.prev = 16000
  /\ probe.result = 30000

SystemCount(c) == Len(SelectSeq(c, IsSystem))

\* C10: truncateConversation(c, N) keeps every system message; its length is
\* at most N whenever N is at least the number of system messages of c, and
\* when N is smaller the result holds no non-system message.
C10_TruncateBound ==
  (probe.fn = "truncateConversation" /\ probe.applied = 1) =>
    /\ SelectSeq(probe.result, IsSystem) = SelectSeq(probe.c, IsSystem)
    /\ probe.n >= SystemCount(probe.c) => Len(probe.result) <= probe.n
    /\ probe.n < SystemCount(probe.c) =>
         SelectSeq(probe.result, NotSystem) = <<>>

\* the k most recent elements of s, in their order (k >= 0)
MostRecent(s, k) == SubSeq(s, Len(s) - Min(k, Len(s)) + 1, Len(s))

\* C11: for every conversation c longer than N whose system messages number
\* at most N, truncateConversation(c, N) is all system messages of c in their
\* order followed by exactly the K most recent non-system messages of c in
\* their order, K = N minus the number of system messages.
C11_SystemThenMostRecent ==
  (/\ probe.fn = "truncateConversation"
   /\ probe.applied = 1
   /\ Len(probe.c) > probe.n
   /\ probe.n >= SystemCount(probe.c)) =>
    probe.result =
      SelectSeq(probe.c, IsSystem)
        \o MostRecent(SelectSeq(probe.c, NotSystem),
                      probe.n - SystemCount(probe.c))

\* the text holds a substring matched by an entry of the deny list
MatchesDenyList(s) ==
  \E i \in 1..Len(s), p \in 1..Len(DANGEROUS_PATTERNS) :
    s[i] = DANGEROUS_PATTERNS[p]

\* C12: validateInput(raw) fails with INVALID_INPUT exactly when raw is empty
\* or whitespace-only, or its trimmed length exceeds 100000, or the trimmed
\* text matches a deny-list pattern; in every other case it returns the
\* trimmed string.
C12_ValidateExactly ==
  (probe.fn = "validateInput" /\ probe.applied = 1) =>
    LET trimmed == Trim(probe.input)
        rejected == \/ trimmed = <<>>
                    \/ TextLength(trimmed) > 100000
                    \/ MatchesDenyList(trimmed)
    IN /\ probe.ok = ~rejected
       /\ rejected => probe.error.type = "INVALID_INPUT"
       /\ ~rejected => probe.text = trimmed

\* the ordered rule list of the classification
Rules ==
  << [words |-> {"API_KEY"}, kind |-> "API_KEY_MISSING"],
     [words |-> {"rate limit", "quota"}, kind |-> "RATE_LIMIT"],
     [words |-> {"network", "fetch"}, kind |-> "NETWORK_ERROR"],
     [words |-> {"safety", "blocked"}, kind |-> "CONTENT_FILTER"] >>

\* the kind of the earliest rule one of whose words the message contains
FirstMatch(mentions) ==
  LET hits == {r \in 1..Len(Rules) : Rules[r].words \cap mentions # {}}
  IN IF hits = {} THEN "UNKNOWN_ERROR"
     ELSE Rules[CHOOSE r \in hits : \A q \in hits : r <= q].kind

\* C15: a provider failure gets the kind of the first matching rule in the
\* order API key, rate limit/quota, network/fetch, safety/blocked, and
\* UNKNOWN_ERROR when no rule matches; a failure that is already a
\* GeminiError keeps its kind.
C15_FirstMatchWins ==
  (probe.fn = "classify" /\ probe.applied = 1) =>
    probe.result.type = IF probe.isGeminiError THEN probe.type
                        ELSE FirstMatch(probe.mentions)

\* C15 witness: a message matching three rules was classified by the
\* earliest of them
C15_Witness ==
  /\ probe.fn = "classify"
  /\ probe.applied = 1
  /\ ~probe.isGeminiError
  /\ probe.mentions = {"fetch", "quota", "blocked"}
  /\ probe.result.type = "RATE_LIMIT"

\* C18: whether a sendMessage of session B is accepted depends on session B
\* alone: a send of valid text in session B, which has no generation call
\* of its own in flight, is accepted whatever session A is doing.
C18_SessionsIndependent ==
  [][ (/\ lastOp'.op = "sendB"
       /\ probe.calls = <<>>
       /\ ValidText(lastOp'.text)) =>
        /\ lastOp'.outcome = "issued"
        /\ probe'.state.error = NoError ]_vars

\* C21: validateInput is stateless: the outcome for an input (accepted with
\* the trimmed text, or rejected with INVALID_INPUT) is the one a service
\* that has validated nothing before gives, whatever was validated earlier.
C21_ValidateStateless ==
  (probe.fn = "validateInput" /\ probe.applied = 1) =>
    LET fresh == validateInput(probe.input, ZeroIndex)
    IN /\ probe.ok = fresh.ok
       /\ probe.text = fresh.text
       /\ probe.error = fresh.error

\* C22: truncateConversation is idempotent,
\* truncateConversation(truncateConversation(c, N), N) is
\* truncateConversation(c, N), and a conversation of length at most N is
\* returned unchanged.
C22_TruncateIdempotent ==
  /\ (probe.fn = "truncateConversation" /\ probe.applied >= 1
        /\ Len(probe.c) <= probe.n) => probe.result = probe.c
  /\ (probe.fn = "truncateConversation" /\ probe.applied = 2) =>
       probe.again = probe.result

====
